---- MODULE Spec2Model ----
(***************************************************************************)
(* Model of the parallel batch engine of src/src/parallel_extractor.py:    *)
(* ParallelTableExtractor.process_folder_sequential and                    *)
(* process_folder_parallel, driven one after the other over the same input *)
(* folder as main() does, with the thread pool, the per-file task          *)
(* _process_single_file, the extraction and persistence collaborators and  *)
(* a discrete wall clock.                                                  *)
(***************************************************************************)
EXTENDS Integers, Sequences, FiniteSets, Bags, TLC

\* ------------------------------------------------------------------ bounds
MaxFiles == 3       \* most directory entries in the input folder
MaxWorkers == 2     \* largest max_workers the extractor is constructed with
MaxDur == 1         \* longest blocking time of one extraction call, in ticks

\* ------------------------------------------------------- the environment
\* A file name is the sequence of its characters.
NameAPng == <<"a", ".", "p", "n", "g">>
NameAPdf == <<"a", ".", "P", "D", "F">>
NameBJpg == <<"b", ".", "j", "p", "g">>
NameHidden == <<".", "g", "i", "f">>

Universe == {NameAPng, NameAPdf, NameBJpg, NameHidden}

\* os.path.getsize of each file, in bytes.
SizeBytes(name) ==
    CASE name = NameAPng -> 131072
      [] name = NameAPdf -> 1572864
      [] name = NameBJpg -> 5243
      [] OTHER -> 0

\* What Document AI finds in each document when the call succeeds.
DocTables(name) ==
    CASE name = NameAPng -> <<"t1", "t2">>
      [] name = NameBJpg -> <<"t1">>
      [] OTHER -> <<>>

DocPages(name) ==
    CASE name = NameAPdf -> 3
      [] OTHER -> 1

Outcomes == {"ok", "fail", "raise"}

None == "None"

\* ------------------------------------------------------------ os.path
Lower(c) ==
    CASE c = "P" -> "p"
      [] c = "D" -> "d"
      [] c = "F" -> "f"
      [] c = "N" -> "n"
      [] c = "G" -> "g"
      [] OTHER -> c

lower(s) == [k \in 1..Len(s) |-> Lower(s[k])]

rfind(p, c) ==
    LET hits == {k \in 1..Len(p) : p[k] = c}
    IN  IF hits = {} THEN 0 ELSE CHOOSE k \in hits : \A j \in hits : j <= k

\* os.path.splitext on a name without directory separators: the extension
\* starts at the last dot, unless only dots precede it.
splitext(p) ==
    LET dot == rfind(p, ".")
    IN  IF dot > 0 /\ \E j \in 1..(dot - 1) : p[j] # "."
        THEN <<SubSeq(p, 1, dot - 1), SubSeq(p, dot, Len(p))>>
        ELSE <<p, <<>>>>

join(folder, filename) == <<folder, filename>>

basename(path) == path[2]

supported_extensions ==
    { <<".", "p", "n", "g">>, <<".", "j", "p", "g">>, <<".", "j", "p", "e", "g">>,
      <<".", "g", "i", "f">>, <<".", "b", "m", "p">>, <<".", "t", "i", "f", "f">>,
      <<".", "p", "d", "f">> }


\* ------------------------------------------------------------ numbers
RECURSIVE gcd(_, _)
gcd(a, b) == IF b = 0 THEN a ELSE gcd(b, a % b)

\* The quotient n / m of two non-negative numbers (m > 0), in lowest terms.
\* A pair with denominator 0 stands for the ZeroDivisionError of n / 0.
Div(n, m) == LET g == gcd(n, m) IN IF g = 0 THEN <<n, m>> ELSE <<n \div g, m \div g>>

Zero == <<0, 1>>

\* round(size_bytes / (1024 * 1024), 2), in hundredths of a megabyte: to the
\* nearest hundredth, a tie going to the even one.
round2(size_bytes) ==
    LET n == size_bytes * 100
        q == n \div 1048576
        r == n % 1048576
    IN  IF 2 * r > 1048576 THEN q + 1
        ELSE IF 2 * r < 1048576 THEN q
        ELSE IF q % 2 = 0 THEN q ELSE q + 1

RECURSIVE sum(_, _)
sum(rs, field) ==
    IF rs = <<>> THEN 0 ELSE Head(rs)[field] + sum(Tail(rs), field)

\* --------------------------------------------- Python floats (binary64)
\* A positive float is [e, m]: m holds the Precision bits of its significand,
\* the leading one first, and its value is 1.m[2]m[3]... * 2^e. Integers
\* beyond 2^31 are out of reach, so significands are bit strings.
Precision == 53

FZero == [e |-> 0, m |-> <<>>]

\* The one element of a singleton. The(\{ f(x) : x \in \{v\} \}) is f(v), v
\* being worked out once, as a Python call evaluates its argument once.
The(S) == CHOOSE r \in S : TRUE

Zeros(n) == [k \in 1..n |-> 0]

RECURSIVE Pow2(_)
Pow2(n) == IF n = 0 THEN 1 ELSE 2 * Pow2(n - 1)

\* The bit string of n bits that stands for v, and the number a bit string
\* of at most eight bits stands for.
Bits(v, n) == [k \in 1..n |-> (v \div Pow2(n - k)) % 2]

BitFromRight(s, k) == IF k <= Len(s) THEN s[Len(s) - k + 1] ELSE 0

Val(s) ==
    BitFromRight(s, 1) + 2 * BitFromRight(s, 2) + 4 * BitFromRight(s, 3)
      + 8 * BitFromRight(s, 4) + 16 * BitFromRight(s, 5)
      + 32 * BitFromRight(s, 6) + 64 * BitFromRight(s, 7)
      + 128 * BitFromRight(s, 8)

\* The sum of two bit strings of one length and a carry, one bit longer,
\* worked out eight bits at a time from the right.
RECURSIVE AddBits(_, _, _)
AddBits(a, b, carry) ==
    LET n == Len(a)
    IN  IF n <= 8
        THEN The({ Bits(v, n + 1) \o <<>> : v \in {Val(a) + Val(b) + carry} })
        ELSE The({ AddBits(t[1], t[2], t[3] \div 256) \o Bits(t[3] % 256, 8) :
                   t \in {<<SubSeq(a, 1, n - 8), SubSeq(b, 1, n - 8),
                            Val(SubSeq(a, n - 7, n)) + Val(SubSeq(b, n - 7, n))
                              + carry>>} })

\* Rounding of an exact significand (leading one first, at least Precision
\* bits) to Precision bits: to nearest, a tie to the even significand.
RoundBits(bits, e) ==
    LET kept == SubSeq(bits, 1, Precision)
        rest == SubSeq(bits, Precision + 1, Len(bits))
        guard == IF rest = <<>> THEN 0 ELSE rest[1]
        sticky == \E k \in 2..Len(rest) : rest[k] = 1
        up == guard = 1 /\ (sticky \/ kept[Precision] = 1)
    IN  IF ~up THEN [e |-> e, m |-> kept]
        ELSE The({ IF inc[1] = 1
                   THEN [e |-> e + 1, m |-> SubSeq(inc, 1, Precision)]
                   ELSE [e |-> e, m |-> Tail(inc)] :
                   inc \in {AddBits(kept, Zeros(Precision - 1) \o <<1>>, 0)} })

\* x + y on floats: the exact sum, rounded once.
fadd(x, y) ==
    IF x = FZero THEN y
    ELSE IF y = FZero THEN x
    ELSE LET hi == IF x.e >= y.e THEN x ELSE y
             lo == IF x.e >= y.e THEN y ELSE x
             d == hi.e - lo.e
         IN  The({ IF s[1] = 1 THEN RoundBits(s, hi.e + 1)
                   ELSE The({ RoundBits(u, hi.e) : u \in {Tail(s)} }) :
                   s \in {AddBits(hi.m \o Zeros(d), Zeros(d) \o lo.m, 0)} })

\* The first n bits of r / den after the binary point (r < den), and the
\* remainder they leave, worked out eight bits at a time.
RECURSIVE QuotBits(_, _, _)
QuotBits(r, den, n) ==
    IF n <= 8 THEN The({ Bits(q, n) \o <<>> : q \in {(r * Pow2(n)) \div den} })
    ELSE The({ Bits(t[1], 8) \o QuotBits(t[2], den, n - 8) :
               t \in {<<(r * 256) \div den, (r * 256) % den>>} })

RECURSIVE QuotRem(_, _, _)
QuotRem(r, den, n) ==
    IF n <= 8 THEN (r * Pow2(n)) % den
    ELSE QuotRem((r * 256) % den, den, n - 8)

\* The float nearest to num / den, which lies in [1, 2), times 2^e.
FloatOfQuotient(num, den, e) ==
    The({ LET guard == IF 2 * t[2] >= den THEN 1 ELSE 0
              sticky == IF 2 * t[2] - guard * den > 0 THEN 1 ELSE 0
          IN  The({ RoundBits(bits, e) :
                    bits \in {<<1>> \o t[1] \o <<guard, sticky>>} }) :
          t \in {<<QuotBits(num - den, den, Precision - 1),
                   QuotRem(num - den, den, Precision - 1)>>} })

\* The float that round(x, 2) returns for h hundredths: the one nearest to
\* the decimal h / 100.
FloatOfHundredths(h) ==
    IF h = 0 THEN FZero
    ELSE The({ The({ FloatOfQuotient(h * 128, den, e) :
                     den \in {Pow2(e + 7) * 100} }) :
               e \in {CHOOSE x \in (0 - 7)..6 :
                          /\ Pow2(x + 7) * 100 <= h * 128
                          /\ h * 128 < Pow2(x + 8) * 100} })

\* sum(r.file_size_mb for r in results): the additions are made from left
\* to right in the order of the list, each rounded.
RECURSIVE fsum(_, _, _)
fsum(rs, field, acc) ==
    IF rs = <<>> THEN acc
    ELSE The({ The({ fsum(t[1], field, next) : next \in {fadd(acc, t[2])} }) :
               t \in {<<Tail(rs), FloatOfHundredths(Head(rs)[field])>>} })

\* ------------------------------------------------------------- state
VARIABLES
    input_exists,       \* os.path.exists(input_folder)
    listing,            \* os.listdir(input_folder)
    outcome,            \* what the extraction call does for each listed file
    duration,           \* ticks one call to the Document AI service blocks
    max_workers,        \* self.max_workers
    results_lock,       \* self.results_lock: the thread that holds it, if any
    writable,           \* whether open(output_path, 'w') succeeds
    clock,              \* time.time()
    pc,                 \* where main() is
    start_time,         \* locals of the running process_folder_* call
    image_files,
    i,
    tasks,
    results,
    successful,
    failed,
    raised,
    work_queue,         \* the executor's queue of work items
    num_threads,        \* len(executor._threads)
    idle_semaphore,     \* executor._idle_semaphore
    outputs,            \* the output files on disk
    writes,             \* every write of an output file: path and writer
    failed_writes,      \* every write of an output file that failed
    extract_calls,      \* calls of extract_tables, per batch run
    threads_started,    \* worker threads ever started
    sequential_results, \* what process_folder_sequential returned
    parallel_results,   \* what process_folder_parallel returned
    sweep_pc,           \* where run_comprehensive_benchmark is
    all_results,        \* its all_results, in insertion order
    analysis,           \* what _analyze_results returned
    performance_report  \* the scalability section _generate_report wrote

env == <<input_exists, listing, outcome, duration, max_workers, results_lock,
         writable>>
locals == <<start_time, image_files, i, tasks, results, successful, failed, raised>>
pool == <<work_queue, num_threads, idle_semaphore>>
disk == <<outputs, writes, failed_writes>>
reports == <<sequential_results, parallel_results>>
sweep == <<sweep_pc, all_results, analysis, performance_report>>
vars == <<env, clock, pc, locals, pool, disk, extract_calls,
          threads_started, reports, sweep>>

InputFolder == "inputs"
SequentialOutput == "outputs/sequential"
ParallelOutput == "outputs/parallel"

\* The output folders of run_comprehensive_benchmark, below its
\* benchmark_dir.
BenchmarkOutput_shared(workers) == "benchmark/output"

BenchmarkOutput(workers) ==
    CASE workers = 1 -> "benchmark/output_sequential"
      [] workers = 2 -> "benchmark/output_parallel_2"
      [] workers = 3 -> "benchmark/output_parallel_3"
      [] workers = 5 -> "benchmark/output_parallel_5"
      [] workers = 8 -> "benchmark/output_parallel_8"
      [] workers = 10 -> "benchmark/output_parallel_10"

\* The output_folder argument of the batch call in progress: main() passes
\* its two folders, the benchmark the folder of the configuration.
OutputFolder(mode) ==
    IF sweep_pc = "run" THEN BenchmarkOutput(max_workers)
    ELSE IF mode = "sequential" THEN SequentialOutput ELSE ParallelOutput

NotRun == [success |-> FALSE, error |-> "not run", processed |-> 0 - 1, results |-> <<>>]

\* ------------------------------------------------------ collaborators
\* TableExtractor.extract_tables: raises FileNotFoundError for a missing
\* file, returns a success dictionary, or the failure dictionary that its
\* own except clause builds.
extract_tables(image_path) ==
    LET name == basename(image_path)
    IN  CASE outcome[name] = "raise" ->
               [kind |-> "raise", exc |-> "Image file not found"]
          [] outcome[name] = "ok" ->
               [kind |-> "return",
                value |-> [success |-> TRUE, text |-> "text",
                           tables |-> DocTables(name), pages |-> DocPages(name),
                           processor |-> "processor"]]
          [] OTHER ->
               [kind |-> "return",
                value |-> [success |-> FALSE, error |-> "process_document failed",
                           text |-> "", tables |-> <<>>, pages |-> 0]]

\* How long the call blocks: the missing-file check raises at once.
BlockingTime(image_path) ==
    IF outcome[basename(image_path)] = "raise" THEN 0 ELSE duration

\* _get_file_size_mb: the size in hundredths of a megabyte, 0.0 when
\* os.path.getsize raises (the file is gone).
_get_file_size_mb(file_path) ==
    IF outcome[basename(file_path)] = "raise"
    THEN 0
    ELSE round2(SizeBytes(basename(file_path)))

\* ------------------------------------------------- _process_single_file
ProcessingResult(file_path, success, processing_time, error, tables_count, pages_count, file_size_mb) ==
    [file_path |-> file_path, success |-> success,
     processing_time |-> processing_time, error |-> error,
     tables_count |-> tables_count, pages_count |-> pages_count,
     file_size_mb |-> file_size_mb]

OutputPath(file_path, output_folder) ==
    join(output_folder, splitext(basename(file_path))[1] \o <<"_extracted.txt">>)

\* Whether the task reaches the _save_result call.
Saves(ext) == ext.kind = "return" /\ ext.value.success

\* _save_result: writes the file, or logs the error of a failed write; it
\* returns nothing either way.
_save_result(files, output_path, write_ok) ==
    IF write_ok THEN files \cup {output_path} ELSE files

\* A variant of the task function without its except clause: the exception
\* of extract_tables leaves the function.
_process_single_file_nocatch(file_path, started, now, ext) ==
    LET file_size == _get_file_size_mb(file_path)
        processing_time == now - started
    IN  IF ext.kind = "raise"
        THEN [kind |-> "raise", exc |-> ext.exc]
        ELSE IF ext.value.success
        THEN [kind |-> "return",
              value |-> ProcessingResult(file_path, TRUE, processing_time, None,
                                         Len(ext.value.tables), ext.value.pages,
                                         file_size)]
        ELSE [kind |-> "return",
              value |-> ProcessingResult(file_path, FALSE, processing_time,
                                         IF "error" \in DOMAIN ext.value
                                         THEN ext.value.error ELSE "Unknown error",
                                         0, 0, file_size)]

\* A variant of the task function whose except clause builds the failed
\* result without the exception text.
_process_single_file_noerror(file_path, started, now, ext) ==
    LET file_size == _get_file_size_mb(file_path)
        processing_time == now - started
    IN  IF ext.kind = "raise"
        THEN [kind |-> "return",
              value |-> ProcessingResult(file_path, FALSE, processing_time,
                                         None, 0, 0, file_size)]
        ELSE IF ext.value.success
        THEN [kind |-> "return",
              value |-> ProcessingResult(file_path, TRUE, processing_time, None,
                                         Len(ext.value.tables), ext.value.pages,
                                         file_size)]
        ELSE [kind |-> "return",
              value |-> ProcessingResult(file_path, FALSE, processing_time,
                                         IF "error" \in DOMAIN ext.value
                                         THEN ext.value.error ELSE "Unknown error",
                                         0, 0, file_size)]

\* The value the task function hands to its caller, given when it started,
\* the time at its end and what extract_tables did.
_process_single_file(file_path, started, now, ext) ==
    LET file_size == _get_file_size_mb(file_path)
        processing_time == now - started
    IN  IF ext.kind = "raise"
        THEN [kind |-> "return",
              value |-> ProcessingResult(file_path, FALSE, processing_time,
                                         ext.exc, 0, 0, file_size)]
        ELSE IF ext.value.success
        THEN [kind |-> "return",
              value |-> ProcessingResult(file_path, TRUE, processing_time, None,
                                         Len(ext.value.tables), ext.value.pages,
                                         file_size)]
        ELSE [kind |-> "return",
              value |-> ProcessingResult(file_path, FALSE, processing_time,
                                         IF "error" \in DOMAIN ext.value
                                         THEN ext.value.error ELSE "Unknown error",
                                         0, 0, file_size)]

\* ------------------------------------------------------ enumeration
Supported(filename) == lower(splitext(filename)[2]) \in supported_extensions

RECURSIVE Filter(_)
Filter(names) ==
    IF names = <<>> THEN <<>>
    ELSE IF Supported(Head(names))
         THEN <<join(InputFolder, Head(names))>> \o Filter(Tail(names))
         ELSE Filter(Tail(names))

Enumerate == IF input_exists THEN Filter(listing) ELSE <<>>

NewTask == [st |-> "new", started |-> 0, rem |-> 0, future |-> [kind |-> "pending"]]

\* ------------------------------------------------------------ reports
\* A variant of the sequential report that records the worker count the
\* extractor was constructed with.
SequentialReport_configured(files, rs, succ, fl, total_time) ==
    LET total_processing_time == sum(rs, "processing_time")
    IN  [success |-> TRUE,
         total_files |-> Len(files),
         successful |-> succ,
         failed |-> fl,
         total_time |-> total_time,
         total_processing_time |-> total_processing_time,
         avg_processing_time |->
             IF rs # <<>> THEN Div(total_processing_time, Len(rs)) ELSE Zero,
         total_file_size_mb |-> fsum(rs, "file_size_mb", FZero),
         throughput |-> IF total_time > 0 THEN Div(Len(rs), total_time) ELSE Zero,
         max_workers |-> max_workers,
         results |-> rs]

\* The dictionary process_folder_sequential returns after its loop.
SequentialReport(files, rs, succ, fl, total_time) ==
    LET total_processing_time == sum(rs, "processing_time")
    IN  [success |-> TRUE,
         total_files |-> Len(files),
         successful |-> succ,
         failed |-> fl,
         total_time |-> total_time,
         total_processing_time |-> total_processing_time,
         avg_processing_time |->
             IF rs # <<>> THEN Div(total_processing_time, Len(rs)) ELSE Zero,
         total_file_size_mb |-> fsum(rs, "file_size_mb", FZero),
         throughput |-> IF total_time > 0 THEN Div(Len(rs), total_time) ELSE Zero,
         max_workers |-> 1,
         results |-> rs]

RECURSIVE successes(_)
successes(rs) ==
    IF rs = <<>> THEN <<>>
    ELSE IF Head(rs).success THEN <<Head(rs)>> \o successes(Tail(rs))
         ELSE successes(Tail(rs))

\* A variant of the parallel report whose file-size total skips the failed
\* results.
ParallelReport_successOnly(files, rs, succ, fl, total_time, workers) ==
    LET total_processing_time == sum(rs, "processing_time")
    IN  [success |-> TRUE,
         total_files |-> Len(files),
         successful |-> succ,
         failed |-> fl,
         total_time |-> total_time,
         total_processing_time |-> total_processing_time,
         avg_processing_time |->
             IF rs # <<>> THEN Div(total_processing_time, Len(rs)) ELSE Zero,
         total_file_size_mb |-> fsum(successes(rs), "file_size_mb", FZero),
         throughput |-> IF total_time > 0 THEN Div(Len(rs), total_time) ELSE Zero,
         max_workers |-> workers,
         results |-> rs]

\* A variant of the parallel report that divides by total_time without
\* looking at it; a quotient with denominator 0 stands for the fault.
ParallelReport_unguarded(files, rs, succ, fl, total_time, workers) ==
    LET total_processing_time == sum(rs, "processing_time")
    IN  [success |-> TRUE,
         total_files |-> Len(files),
         successful |-> succ,
         failed |-> fl,
         total_time |-> total_time,
         total_processing_time |-> total_processing_time,
         avg_processing_time |->
             IF rs # <<>> THEN Div(total_processing_time, Len(rs)) ELSE Zero,
         total_file_size_mb |-> fsum(rs, "file_size_mb", FZero),
         throughput |-> <<Len(rs), total_time>>,
         max_workers |-> workers,
         results |-> rs]

\* The dictionary process_folder_parallel returns after the pool has shut down.
ParallelReport(files, rs, succ, fl, total_time, workers) ==
    LET total_processing_time == sum(rs, "processing_time")
    IN  [success |-> TRUE,
         total_files |-> Len(files),
         successful |-> succ,
         failed |-> fl,
         total_time |-> total_time,
         total_processing_time |-> total_processing_time,
         avg_processing_time |->
             IF rs # <<>> THEN Div(total_processing_time, Len(rs)) ELSE Zero,
         total_file_size_mb |-> fsum(rs, "file_size_mb", FZero),
         throughput |-> IF total_time > 0 THEN Div(Len(rs), total_time) ELSE Zero,
         max_workers |-> workers,
         results |-> rs]

\* A variant of the empty-folder return value: the empty list is run as a
\* trivial batch and reported as a success with zero files.
NothingToProcess_trivial == SequentialReport(<<>>, <<>>, 0, 0, 0)

\* The dictionary both functions return when no supported file is found.
NothingToProcess ==
    [success |-> FALSE, error |-> "No supported files found", processed |-> 0,
     results |-> <<>>]

\* ------------------------------------------------------------- Init
\* ParallelTableExtractor.__init__: self.max_workers is the argument, as it
\* is given.
__init__(max_workers_arg) == max_workers_arg

\* Lock(): a new lock is held by no thread. No method of the class acquires
\* self.results_lock.
Lock == "unlocked"

\* The order in which os.listdir returns the entries that exist.
DirOrder == <<NameAPng, NameAPdf, NameBJpg, NameHidden>>

RECURSIVE Pick(_, _)
Pick(names, present) ==
    IF names = <<>> THEN <<>>
    ELSE IF Head(names) \in present
         THEN <<Head(names)>> \o Pick(Tail(names), present)
         ELSE Pick(Tail(names), present)

Listings ==
    { Pick(DirOrder, present) :
        present \in { S \in SUBSET Universe : Cardinality(S) <= MaxFiles } }

Range(f) == { f[k] : k \in DOMAIN f }

Init ==
    /\ input_exists \in BOOLEAN
    /\ listing \in Listings
    /\ input_exists = FALSE => listing = <<>>
    /\ outcome \in [Range(listing) -> Outcomes]
    /\ \A n \in Range(listing) : ~Supported(n) => outcome[n] = "ok"
    /\ duration \in 0..MaxDur
    /\ max_workers \in { __init__(w) : w \in 0..MaxWorkers }
    /\ results_lock = Lock
    /\ writable \in BOOLEAN
    /\ clock = 0
    /\ pc = "sequential"
    /\ start_time = 0
    /\ image_files = <<>>
    /\ i = 0
    /\ tasks = <<>>
    /\ results = <<>>
    /\ successful = 0
    /\ failed = 0
    /\ raised = FALSE
    /\ work_queue = <<>>
    /\ num_threads = 0
    /\ idle_semaphore = 0
    /\ outputs = {}
    /\ writes = {}
    /\ failed_writes = {}
    /\ extract_calls = [m \in {"sequential", "parallel"} |-> EmptyBag]
    /\ threads_started = 0
    /\ sequential_results = NotRun
    /\ parallel_results = NotRun
    /\ sweep_pc = "idle"
    /\ all_results = <<>>
    /\ analysis = <<>>
    /\ performance_report = <<>>

ResetLocals ==
    /\ start_time' = 0
    /\ image_files' = <<>>
    /\ i' = 0
    /\ tasks' = <<>>
    /\ results' = <<>>
    /\ successful' = 0
    /\ failed' = 0
    /\ raised' = FALSE

\* ------------------------------------------------ the task, step by step
\* A variant of the task function that calls extract_tables a second time
\* when the first call did not succeed.
Begin_retry(k, mode) ==
    /\ tasks' = [tasks EXCEPT ![k] = [@ EXCEPT !.st = "running",
                                               !.started = clock,
                                               !.rem = BlockingTime(image_files[k])]]
    /\ extract_calls' = [extract_calls EXCEPT
                            ![mode] = @ (+) SetToBag({image_files[k]})
                                        (+) (IF outcome[basename(image_files[k])] = "ok"
                                             THEN EmptyBag
                                             ELSE SetToBag({image_files[k]}))]

\* The task function up to its blocking extract_tables call.
Begin(k, mode) ==
    /\ tasks' = [tasks EXCEPT ![k] = [@ EXCEPT !.st = "running",
                                               !.started = clock,
                                               !.rem = BlockingTime(image_files[k])]]
    /\ extract_calls' = [extract_calls EXCEPT
                            ![mode] = @ (+) SetToBag({image_files[k]})]

\* The rest of the task function: extract_tables is back, the output file
\* is written on success, and the ProcessingResult is built.
Finish(k, output_folder) ==
    LET ext == extract_tables(image_files[k])
        path == OutputPath(image_files[k], output_folder)
    IN  /\ outputs' = IF Saves(ext) THEN _save_result(outputs, path, writable)
                      ELSE outputs
        /\ writes' = IF Saves(ext) /\ writable
                     THEN writes \cup {[path |-> path, by |-> image_files[k]]}
                     ELSE writes
        /\ failed_writes' =
               IF Saves(ext) /\ ~writable
               THEN failed_writes \cup {[path |-> path, by |-> image_files[k]]}
               ELSE failed_writes

\* A variant in which every task reads the extraction result of the first
\* file (one result dictionary shared by all tasks).
Completed_first(k) ==
    _process_single_file(image_files[k], tasks[k].started, clock,
                         extract_tables(image_files[1]))

\* What the task function of file k returns when it ends now.
Completed(k) ==
    _process_single_file(image_files[k], tasks[k].started, clock,
                         extract_tables(image_files[k]))

\* A variant that counts the successful results only.
Tally_successOnly(r) == IF r.success THEN <<1, 0>> ELSE <<0, 0>>

\* What one result adds to the successful and failed counters.
Tally(r) == IF r.success THEN <<1, 0>> ELSE <<0, 1>>

\* The successful and failed counters after the collecting loop has gone
\* through the results rs.
RECURSIVE Counted(_)
Counted(rs) ==
    IF rs = <<>> THEN <<0, 0>>
    ELSE LET c == Counted(SubSeq(rs, 1, Len(rs) - 1))
             t == Tally(rs[Len(rs)])
         IN  <<c[1] + t[1], c[2] + t[2]>>

\* -------------------------------------------- process_folder_sequential
SeqStart ==
    /\ pc = "sequential"
    /\ IF Enumerate = <<>>
       THEN /\ sequential_results' = NothingToProcess
            /\ pc' = "parallel"
            /\ UNCHANGED <<start_time, image_files, i, tasks>>
       ELSE /\ pc' = "seq_loop"
            /\ start_time' = clock
            /\ image_files' = Enumerate
            /\ i' = 1
            /\ tasks' = [k \in 1..Len(Enumerate) |-> NewTask]
            /\ UNCHANGED sequential_results
    /\ UNCHANGED <<results, successful, failed, raised>>
    /\ UNCHANGED <<env, clock, pool, disk, extract_calls, threads_started,
                   parallel_results>>
    /\ UNCHANGED sweep

\* A variant of the loop that calls the task function for any file not
\* yet begun, without waiting for the call before.
SeqCall_ahead ==
    /\ pc = "seq_loop"
    /\ \E k \in DOMAIN tasks : tasks[k].st = "new" /\ Begin(k, "sequential")
    /\ UNCHANGED <<env, clock, pc, start_time, image_files, i, results,
                   successful, failed, raised, pool, disk, threads_started, reports>>
    /\ UNCHANGED sweep

\* The loop calls _process_single_file for file i.
SeqCall ==
    /\ pc = "seq_loop"
    /\ i <= Len(image_files)
    /\ tasks[i].st = "new"
    /\ Begin(i, "sequential")
    /\ UNCHANGED <<env, clock, pc, start_time, image_files, i, results,
                   successful, failed, raised, pool, disk, threads_started, reports>>
    /\ UNCHANGED sweep

SeqReturn ==
    /\ pc = "seq_loop"
    /\ i <= Len(image_files)
    /\ tasks[i].st = "running"
    /\ tasks[i].rem = 0
    /\ Finish(i, OutputFolder("sequential"))
    /\ LET r == Completed(i)
       IN  IF r.kind = "return"
           THEN /\ results' = Append(results, r.value)
                /\ successful' = successful + Tally(r.value)[1]
                /\ failed' = failed + Tally(r.value)[2]
                /\ i' = i + 1
                /\ tasks' = [tasks EXCEPT ![i] = [@ EXCEPT !.st = "collected",
                                                           !.started = 0,
                                                           !.future = r]]
                /\ UNCHANGED <<pc, raised>>
           ELSE /\ pc' = "raised"
                /\ raised' = TRUE
                /\ tasks' = [tasks EXCEPT ![i] = [@ EXCEPT !.st = "finished",
                                                           !.started = 0,
                                                           !.future = r]]
                /\ UNCHANGED <<results, successful, failed, i>>
    /\ UNCHANGED <<env, clock, start_time, image_files, pool,
                   extract_calls, threads_started, reports>>
    /\ UNCHANGED sweep

SeqReport ==
    /\ pc = "seq_loop"
    /\ i > Len(image_files)
    /\ sequential_results' =
           SequentialReport(image_files, results, successful, failed,
                            clock - start_time)
    /\ pc' = "parallel"
    /\ ResetLocals
    /\ UNCHANGED <<env, clock, pool, disk, extract_calls, threads_started,
                   parallel_results>>
    /\ UNCHANGED sweep

\* ---------------------------------------------- process_folder_parallel
\* ThreadPoolExecutor(max_workers=...): the constructor of the pool raises
\* ValueError("max_workers must be greater than 0") for a count below one.
ThreadPoolExecutor(workers) == IF workers <= 0 THEN "ValueError" ELSE "executor"

ParStart ==
    /\ pc = "parallel"
    /\ IF Enumerate = <<>>
       THEN /\ parallel_results' = NothingToProcess
            /\ pc' = "compare"
            /\ UNCHANGED <<start_time, image_files, i, tasks>>
       ELSE IF ThreadPoolExecutor(max_workers) = "ValueError"
       THEN /\ pc' = "raised"
            /\ UNCHANGED <<start_time, image_files, i, tasks, parallel_results>>
       ELSE /\ pc' = "par_submit"
            /\ start_time' = clock
            /\ image_files' = Enumerate
            /\ i' = 1
            /\ tasks' = [k \in 1..Len(Enumerate) |-> NewTask]
            /\ UNCHANGED parallel_results
    /\ UNCHANGED <<results, successful, failed, raised>>
    /\ UNCHANGED <<env, clock, pool, disk, extract_calls, threads_started,
                   sequential_results>>
    /\ UNCHANGED sweep

\* A variant of the pool that starts a thread for every submitted item.
SpawnsThread_unbounded(idle, threads, limit) == idle = 0

\* A variant of the pool that never grows beyond its first thread.
SpawnsThread_single(idle, threads, limit) == idle = 0 /\ threads < 1

\* ThreadPoolExecutor._adjust_thread_count: a new worker thread is started
\* for a submitted item when no worker is idle and fewer than limit exist.
SpawnsThread(idle, threads, limit) == idle = 0 /\ threads < limit

\* executor.submit of the next file, in the dictionary comprehension.
Submit ==
    /\ pc = "par_submit"
    /\ i <= Len(image_files)
    /\ tasks' = [tasks EXCEPT ![i] = [@ EXCEPT !.st = "queued"]]
    /\ work_queue' = Append(work_queue, i)
    /\ idle_semaphore' = IF idle_semaphore > 0 THEN idle_semaphore - 1
                         ELSE idle_semaphore
    /\ IF SpawnsThread(idle_semaphore, num_threads, max_workers)
       THEN /\ num_threads' = num_threads + 1
            /\ threads_started' = threads_started + 1
       ELSE UNCHANGED <<num_threads, threads_started>>
    /\ i' = i + 1
    /\ pc' = IF i = Len(image_files) THEN "par_collect" ELSE pc
    /\ UNCHANGED <<env, clock, start_time, image_files, results,
                   successful, failed, raised, disk, extract_calls, reports>>
    /\ UNCHANGED sweep

InPool == pc \in {"par_submit", "par_collect", "par_exit"}

Running == { k \in DOMAIN tasks : tasks[k].st = "running" }

\* A worker thread waiting on the queue takes the oldest work item and
\* starts the task function.
WorkerBegin ==
    /\ InPool
    /\ work_queue # <<>>
    /\ Cardinality(Running) < num_threads
    /\ Begin(Head(work_queue), "parallel")
    /\ work_queue' = Tail(work_queue)
    /\ UNCHANGED <<env, clock, pc, start_time, image_files, i, results,
                   successful, failed, raised, num_threads, idle_semaphore, disk,
                   threads_started, reports>>
    /\ UNCHANGED sweep

\* A variant in which the worker itself appends its result to the results
\* list and counts it.
WorkerFinish_appends(k) ==
    /\ InPool
    /\ tasks[k].st = "running"
    /\ tasks[k].rem = 0
    /\ Finish(k, OutputFolder("parallel"))
    /\ tasks' = [tasks EXCEPT ![k] = [@ EXCEPT !.st = "finished",
                                               !.started = 0,
                                               !.future = Completed(k)]]
    /\ results' = Append(results, Completed(k).value)
    /\ successful' = successful + Tally(Completed(k).value)[1]
    /\ failed' = failed + Tally(Completed(k).value)[2]
    /\ idle_semaphore' = idle_semaphore + 1
    /\ UNCHANGED <<env, clock, pc, start_time, image_files, i,
                   raised, work_queue, num_threads,
                   extract_calls, threads_started, reports>>
    /\ UNCHANGED sweep

\* The task function returns in its worker: the future gets its result (or
\* the exception that escaped), and the worker counts as idle again.
WorkerFinish(k) ==
    /\ InPool
    /\ tasks[k].st = "running"
    /\ tasks[k].rem = 0
    /\ Finish(k, OutputFolder("parallel"))
    /\ tasks' = [tasks EXCEPT ![k] = [@ EXCEPT !.st = "finished",
                                               !.started = 0,
                                               !.future = Completed(k)]]
    /\ idle_semaphore' = idle_semaphore + 1
    /\ UNCHANGED <<env, clock, pc, start_time, image_files, i, results,
                   successful, failed, raised, work_queue, num_threads,
                   extract_calls, threads_started, reports>>
    /\ UNCHANGED sweep

\* A variant that yields a done future again after it was yielded.
as_completed_twice ==
    { k \in DOMAIN tasks : tasks[k].st \in {"finished", "collected"} }

\* A variant that yields only the futures of successful tasks.
as_completed_successOnly ==
    { k \in DOMAIN tasks : /\ tasks[k].st = "finished"
                           /\ tasks[k].future.kind = "return"
                           /\ tasks[k].future.value.success }

\* The futures as_completed can yield next: done and not yet yielded.
as_completed == { k \in DOMAIN tasks : tasks[k].st = "finished" }

\* One turn of the collecting loop: future.result(), append, count.
Collect(k) ==
    /\ pc = "par_collect"
    /\ k \in as_completed
    /\ LET r == tasks[k].future
       IN  IF r.kind = "return"
           THEN /\ results' = Append(results, r.value)
                /\ successful' = successful + Tally(r.value)[1]
                /\ failed' = failed + Tally(r.value)[2]
                /\ tasks' = [tasks EXCEPT ![k] = [@ EXCEPT !.st = "collected"]]
                /\ pc' = IF Len(results) + 1 = Len(image_files)
                         THEN "par_exit" ELSE pc
                /\ UNCHANGED raised
           ELSE /\ raised' = TRUE
                /\ pc' = "par_exit"
                /\ tasks' = [tasks EXCEPT ![k] = [@ EXCEPT !.st = "collected"]]
                /\ UNCHANGED <<results, successful, failed>>
    /\ UNCHANGED <<env, clock, start_time, image_files, i, pool, disk,
                   extract_calls, threads_started, reports>>
    /\ UNCHANGED sweep

\* The with block is left (the pool joins its workers once every work item
\* has run), and the report is built, or the exception of future.result()
\* leaves the function.
ParReport ==
    /\ pc = "par_exit"
    /\ \A k \in DOMAIN tasks : tasks[k].st \in {"finished", "collected"}
    /\ IF raised
       THEN /\ pc' = "raised"
            /\ UNCHANGED parallel_results
       ELSE /\ pc' = "compare"
            /\ parallel_results' =
                   ParallelReport(image_files, results, successful, failed,
                                  clock - start_time, max_workers)
    /\ ResetLocals
    /\ work_queue' = <<>>
    /\ num_threads' = 0
    /\ idle_semaphore' = 0
    /\ UNCHANGED <<env, clock, disk, extract_calls, threads_started,
                   sequential_results>>
    /\ UNCHANGED sweep

\* ------------------------------------------------------------- main
\* The comparison main() prints: it reads total_time of both reports and
\* divides the sequential time by the parallel one.
MainCompare ==
    /\ pc = "compare"
    /\ pc' = IF /\ sequential_results.success
                /\ parallel_results.success
                /\ (sequential_results.total_time > 0
                      => parallel_results.total_time > 0)
             THEN "done" ELSE "main_raised"
    /\ UNCHANGED <<env, clock, locals, pool, disk, extract_calls,
                   threads_started, reports>>
    /\ UNCHANGED sweep

\* ------------------------------------------------------------- time
BatchRunning == pc \in {"seq_loop", "par_submit", "par_collect", "par_exit"}

Blocked == { k \in DOMAIN tasks : tasks[k].st = "running" /\ tasks[k].rem > 0 }

\* One tick of the wall clock: every blocked extraction call gets one tick
\* nearer to its return. Time passes only while some call is blocked.
Tick ==
    /\ BatchRunning
    /\ Blocked # {}
    /\ clock' = clock + 1
    /\ tasks' = [k \in DOMAIN tasks |->
                    IF k \in Blocked THEN [tasks[k] EXCEPT !.rem = @ - 1]
                    ELSE tasks[k]]
    /\ UNCHANGED <<env, pc, start_time, image_files, i, results, successful,
                   failed, raised, pool, disk, extract_calls, threads_started,
                   reports>>
    /\ UNCHANGED sweep

Next ==
    \/ SeqStart
    \/ SeqCall
    \/ SeqReturn
    \/ SeqReport
    \/ ParStart
    \/ Submit
    \/ WorkerBegin
    \/ \E k \in DOMAIN tasks : WorkerFinish(k)
    \/ \E k \in DOMAIN tasks : Collect(k)
    \/ ParReport
    \/ MainCompare
    \/ Tick

Spec == Init /\ [][Next]_vars

FairSpec == Spec /\ WF_vars(Next)

\* ------------------------------------------- the engine without scheduling lag
\* Both batches of main() over a readable folder in which every extraction
\* call succeeds after the same blocking time, on an extractor with at
\* least one worker.
EagerInit ==
    /\ Init
    /\ input_exists = TRUE
    /\ writable = TRUE
    /\ max_workers >= 1
    /\ \A n \in Range(listing) : outcome[n] = "ok"

\* Time passes only when no thread has a step to take at the present
\* instant: every submission is made, no worker with an item in the queue
\* is idle, and no extraction call that is back waits for its task
\* function to end.
EagerTick ==
    /\ pc # "par_submit"
    /\ ~(InPool /\ work_queue # <<>> /\ Cardinality(Running) < num_threads)
    /\ Running = Blocked
    /\ Tick

EagerNext ==
    \/ SeqStart
    \/ SeqCall
    \/ SeqReturn
    \/ SeqReport
    \/ ParStart
    \/ Submit
    \/ WorkerBegin
    \/ \E k \in DOMAIN tasks : WorkerFinish(k)
    \/ \E k \in DOMAIN tasks : Collect(k)
    \/ ParReport
    \/ MainCompare
    \/ EagerTick

EagerSpec == EagerInit /\ [][EagerNext]_vars

\* =================================================================
\* The scalability sweep of src/performance_benchmark.py
\* =================================================================
MaxTime == 2        \* longest total_time of one configuration's batch, in ticks

\* A variant of the list that does not begin with the baseline.
worker_configs_unsorted == <<2, 1, 3, 5, 8, 10>>

\* worker_configs of run_comprehensive_benchmark.
worker_configs == <<1, 2, 3, 5, 8, 10>>

\* ------------------------------------------------- rationals, in lowest terms
One == <<1, 1>>

Half == <<1, 2>>

RLess(a, b) == a[1] * b[2] < b[1] * a[2]

RAdd(a, b) == Div(a[1] * b[2] + b[1] * a[2], a[2] * b[2])

RAbsDiff(a, b) ==
    LET x == a[1] * b[2]
        y == b[1] * a[2]
    IN  Div(IF x >= y THEN x - y ELSE y - x, a[2] * b[2])

RECURSIVE RSum(_)
RSum(rs) == IF rs = <<>> THEN Zero ELSE RAdd(Head(rs), RSum(Tail(rs)))

\* statistics.mean of a non-empty list.
mean(rs) == LET t == RSum(rs) IN Div(t[1], t[2] * Len(rs))

\* max() and min() of a non-empty list.
max(rs) == rs[CHOOSE k \in DOMAIN rs : \A j \in DOMAIN rs : ~RLess(rs[k], rs[j])]

min(ts) == CHOOSE t \in Range(ts) : \A u \in Range(ts) : t <= u

\* A variant of list.index that finds the last place of the value.
index_last(rs, v) ==
    CHOOSE k \in DOMAIN rs : rs[k] = v /\ \A j \in DOMAIN rs : rs[j] = v => j <= k

\* list.index: the first place of the value in the list.
index(rs, v) ==
    CHOOSE k \in DOMAIN rs : rs[k] = v /\ \A j \in DOMAIN rs : rs[j] = v => k <= j

\* ------------------------------------------ one configuration's batch call
\* The results of a batch over files, as the sweep sees them; the sweep
\* reads no per-task time.
SweepBatchResults(files) ==
    [k \in DOMAIN files |->
        _process_single_file(files[k], 0, 0, extract_tables(files[k])).value]

\* What the call extractor.process_folder_sequential(...) of the sweep
\* returns for the files it finds and the wall time it takes.
process_folder_sequential(files, total_time) ==
    IF files = <<>> THEN NothingToProcess
    ELSE LET rs == SweepBatchResults(files)
         IN  SequentialReport(files, rs, Counted(rs)[1], Counted(rs)[2], total_time)

\* What the call extractor.process_folder_parallel(...) of the sweep returns
\* with an extractor of the given worker count.
process_folder_parallel(files, total_time, workers) ==
    IF files = <<>> THEN NothingToProcess
    ELSE LET rs == SweepBatchResults(files)
         IN  ParallelReport(files, rs, Counted(rs)[1], Counted(rs)[2],
                            total_time, workers)

\* ------------------------------------------------------ _analyze_results
EmptyDict == <<>>

Raise(exc) == [kind |-> "raise", exc |-> exc]

Successful(all) == SelectSeq(all, LAMBDA e : e.result.success)

\* A variant of the speedup loop that counts the configurations from the
\* baseline on (enumerate without its start argument).
TimeOf_fromBaseline(total_times, j) == total_times[j]

\* total_times[i] in the loop over worker_counts[1:], whose j-th turn has
\* i = j counted from zero.
TimeOf(total_times, j) == total_times[j + 1]

\* A variant of the speedup that divides without looking at the divisor.
Speedup_unguarded(sequential_time, total_time) == Div(sequential_time, total_time)

\* sequential_time / total_times[i] if total_times[i] > 0 else 1
Speedup(sequential_time, total_time) ==
    IF total_time > 0 THEN Div(sequential_time, total_time) ELSE One

\* _calculate_linearity_deviation
_calculate_linearity_deviation(workers, speedups) ==
    IF workers = <<>> \/ speedups = <<>> THEN Zero
    ELSE mean([k \in 1..(IF Len(workers) < Len(speedups)
                         THEN Len(workers) ELSE Len(speedups)) |->
                 RAbsDiff(speedups[k], <<workers[k], 1>>)])

\* The scalability block, entered when more than one configuration ran.
ScalabilityAnalysis(worker_counts, total_times, sequential_time) ==
    LET rest == Tail(worker_counts)
        speedups == [j \in DOMAIN rest |->
                        Speedup(sequential_time, TimeOf(total_times, j))]
        efficiencies == [j \in DOMAIN rest |->
                            Div(speedups[j][1], speedups[j][2] * rest[j])]
    IN  [speedups |-> speedups,
         efficiencies |-> efficiencies,
         optimal_workers |->
             IF efficiencies # <<>>
             THEN rest[index(efficiencies, max(efficiencies))] ELSE 1,
         linear_speedup_deviation |->
             _calculate_linearity_deviation(rest, speedups)]

\* _analyze_results: the analysis dictionary, or the exception that leaves
\* the function.
_analyze_results(all) ==
    LET ran == Successful(all)
        worker_counts == [k \in DOMAIN ran |-> ran[k].result.max_workers]
        total_times == [k \in DOMAIN ran |-> ran[k].result.total_time]
        throughputs == [k \in DOMAIN ran |-> ran[k].result.throughput]
        success_rates == [k \in DOMAIN ran |->
                             Div(ran[k].result.successful, ran[k].result.total_files)]
        workers_1 == (CHOOSE e \in Range(all) : e.key = 1).result
    IN  IF "total_time" \notin DOMAIN workers_1 THEN Raise("KeyError")
        ELSE IF throughputs = <<>> THEN Raise("ValueError")
        ELSE
        LET sequential_time == workers_1.total_time
            best_parallel_time == IF Len(total_times) > 1
                                  THEN min(Tail(total_times)) ELSE sequential_time
            max_speedup == IF best_parallel_time > 0
                           THEN Div(sequential_time, best_parallel_time) ELSE One
        IN  [kind |-> "return",
             value |->
               [performance_metrics |->
                  [sequential_time |-> sequential_time,
                   best_parallel_time |-> best_parallel_time,
                   max_speedup |-> max_speedup,
                   max_throughput |-> max(throughputs),
                   avg_success_rate |->
                       IF success_rates # <<>> THEN mean(success_rates) ELSE Zero],
                scalability_analysis |->
                  IF Len(worker_counts) > 1
                  THEN ScalabilityAnalysis(worker_counts, total_times, sequential_time)
                  ELSE EmptyDict,
                summary |->
                  [total_files_processed |-> workers_1.total_files,
                   total_data_size_mb |-> workers_1.total_file_size_mb,
                   worker_configurations_tested |-> Len(worker_counts),
                   best_configuration |->
                       worker_counts[index(throughputs, max(throughputs))]]]]

\* -------------------------------------------- run_comprehensive_benchmark
\* The sweep starts over an input folder that holds MaxFiles entries whose
\* extraction calls all end the same way; the batch engine itself is at rest.
SweepInit ==
    /\ input_exists = TRUE
    /\ listing \in { l \in Listings : Len(l) = MaxFiles }
    /\ \E o \in Outcomes :
         outcome = [n \in Range(listing) |-> IF Supported(n) THEN o ELSE "ok"]
    /\ duration = 0
    /\ max_workers = 1
    /\ results_lock = Lock
    /\ writable = TRUE
    /\ clock = 0
    /\ pc = "sweep"
    /\ start_time = 0
    /\ image_files = <<>>
    /\ i = 0
    /\ tasks = <<>>
    /\ results = <<>>
    /\ successful = 0
    /\ failed = 0
    /\ raised = FALSE
    /\ work_queue = <<>>
    /\ num_threads = 0
    /\ idle_semaphore = 0
    /\ outputs = {}
    /\ writes = {}
    /\ failed_writes = {}
    /\ extract_calls = [m \in {"sequential", "parallel"} |-> EmptyBag]
    /\ threads_started = 0
    /\ sequential_results = NotRun
    /\ parallel_results = NotRun
    /\ sweep_pc = "loop"
    /\ all_results = <<>>
    /\ analysis = EmptyDict
    /\ performance_report = EmptyDict

engine == <<env, clock, pc, locals, pool, disk, extract_calls, threads_started,
            reports>>

\* One turn of the loop over worker_configs: a new extractor runs one batch
\* over the files the folder holds at that moment (the folder may have been
\* emptied), the batch takes total_time, and its report is recorded under
\* the key of the configuration.
RunConfiguration ==
    /\ sweep_pc = "loop"
    /\ Len(all_results) < Len(worker_configs)
    /\ LET workers == worker_configs[Len(all_results) + 1]
       IN  \E files \in {Enumerate, <<>>}, total_time \in 0..MaxTime :
             LET result ==
                   IF workers = 1
                   THEN process_folder_sequential(files, total_time)
                          @@ ("processing_type" :> "Sequential")
                   ELSE process_folder_parallel(files, total_time, __init__(workers))
                          @@ ("processing_type" :> "Parallel")
             IN  all_results' = Append(all_results, [key |-> workers, result |-> result])
    /\ sweep_pc' = IF Len(all_results) + 1 = Len(worker_configs)
                   THEN "analyze" ELSE "loop"
    /\ UNCHANGED <<engine, analysis, performance_report>>

\* After the loop: the raw results are saved and _analyze_results is called;
\* its exception leaves run_comprehensive_benchmark.
AnalyzeResults ==
    /\ sweep_pc = "analyze"
    /\ LET a == _analyze_results(all_results)
       IN  IF a.kind = "raise"
           THEN /\ sweep_pc' = "raised"
                /\ UNCHANGED analysis
           ELSE /\ sweep_pc' = "report"
                /\ analysis' = a.value
    /\ UNCHANGED <<engine, all_results, performance_report>>

\* A variant of the pattern line whose first band takes in its upper end.
SpeedupPattern_inclusive(deviation) ==
    IF ~RLess(Half, deviation) THEN "Near-linear scaling achieved"
    ELSE IF RLess(deviation, One) THEN "Good scaling with some overhead"
    ELSE "Diminishing returns observed"

\* The "Speedup Pattern" line of the report: < 0.5, < 1.0, else.
SpeedupPattern(deviation) ==
    IF RLess(deviation, Half) THEN "Near-linear scaling achieved"
    ELSE IF RLess(deviation, One) THEN "Good scaling with some overhead"
    ELSE "Diminishing returns observed"

\* _generate_visualizations catches whatever it raises; _generate_report
\* reads analysis['scalability_analysis']['optimal_workers'] and raises
\* KeyError when the scalability block was not computed; otherwise it writes
\* the scalability section. Then the sweep returns all_results.
GenerateReport ==
    /\ sweep_pc = "report"
    /\ LET scalability == analysis.scalability_analysis
       IN  IF "optimal_workers" \in DOMAIN scalability
           THEN /\ sweep_pc' = "done"
                /\ performance_report' =
                     [optimal_workers |-> scalability.optimal_workers,
                      linear_speedup_deviation |->
                          scalability.linear_speedup_deviation,
                      pattern |->
                          SpeedupPattern(scalability.linear_speedup_deviation)]
           ELSE /\ sweep_pc' = "raised"
                /\ UNCHANGED performance_report
    /\ UNCHANGED <<engine, all_results, analysis>>

SweepNext ==
    \/ RunConfiguration
    \/ AnalyzeResults
    \/ GenerateReport

SweepSpec == SweepInit /\ [][SweepNext]_vars

\* ------------------------------- the sweep, with its batches step by step
\* The same loop with every batch run by the steps of process_folder_*.
MaxSweepWork == 2   \* most folder entries times ticks at the service, begun

\* The stepwise sweep starts with the extractor of the first configuration
\* about to make its call.
StepInit ==
    /\ input_exists \in BOOLEAN
    /\ duration \in 0..MaxDur
    /\ listing \in { l \in Listings : Len(l) * (duration + 1) <= MaxSweepWork }
    /\ input_exists = FALSE => listing = <<>>
    /\ outcome \in [Range(listing) -> Outcomes]
    /\ \A n \in Range(listing) : ~Supported(n) => outcome[n] = "ok"
    /\ max_workers = __init__(worker_configs[1])
    /\ results_lock = Lock
    /\ writable = TRUE
    /\ clock = 0
    /\ pc = "sequential"
    /\ start_time = 0
    /\ image_files = <<>>
    /\ i = 0
    /\ tasks = <<>>
    /\ results = <<>>
    /\ successful = 0
    /\ failed = 0
    /\ raised = FALSE
    /\ work_queue = <<>>
    /\ num_threads = 0
    /\ idle_semaphore = 0
    /\ outputs = {}
    /\ writes = {}
    /\ failed_writes = {}
    /\ extract_calls = [m \in {"sequential", "parallel"} |-> EmptyBag]
    /\ threads_started = 0
    /\ sequential_results = NotRun
    /\ parallel_results = NotRun
    /\ sweep_pc = "run"
    /\ all_results = <<>>
    /\ analysis = EmptyDict
    /\ performance_report = EmptyDict

\* Whether the batch call of the configuration in turn has returned.
Returned ==
    IF all_results = <<>> THEN pc = "parallel" ELSE pc = "compare"

\* The end of one turn of the loop and the head of the next: the returned
\* dictionary gets its processing_type and is stored under the key of the
\* configuration; then the extractor of the next configuration is made, or
\* the loop is left.
RecordResult ==
    /\ sweep_pc = "run"
    /\ Returned
    /\ LET workers == worker_configs[Len(all_results) + 1]
           result == IF workers = 1
                     THEN sequential_results @@ ("processing_type" :> "Sequential")
                     ELSE parallel_results @@ ("processing_type" :> "Parallel")
       IN  all_results' = Append(all_results, [key |-> workers, result |-> result])
    /\ IF Len(all_results) + 1 < Len(worker_configs)
       THEN /\ max_workers' = __init__(worker_configs[Len(all_results) + 2])
            /\ results_lock' = Lock
            /\ pc' = "parallel"
            /\ UNCHANGED sweep_pc
       ELSE /\ sweep_pc' = "analyze"
            /\ UNCHANGED <<max_workers, results_lock, pc>>
    /\ UNCHANGED <<input_exists, listing, outcome, duration, writable, clock,
                   locals, pool, disk, extract_calls, threads_started, reports,
                   analysis, performance_report>>

\* extractor.process_folder_parallel is called once the result of the
\* turn before has been stored.
StepParStart ==
    /\ sweep_pc = "run"
    /\ all_results # <<>>
    /\ ParStart

StepNext ==
    \/ SeqStart
    \/ SeqCall
    \/ SeqReturn
    \/ SeqReport
    \/ StepParStart
    \/ Submit
    \/ WorkerBegin
    \/ \E k \in DOMAIN tasks : WorkerFinish(k)
    \/ \E k \in DOMAIN tasks : Collect(k)
    \/ ParReport
    \/ Tick
    \/ RecordResult
    \/ AnalyzeResults
    \/ GenerateReport

StepSpec == StepInit /\ [][StepNext]_vars

\* =================================================================
\* Properties
\* =================================================================
NameOf(p) == basename(p)

Runs == { <<sequential_results, "sequential", SequentialOutput>>,
          <<parallel_results, "parallel", ParallelOutput>> }

PathCount(rs, p) == Cardinality({ k \in DOMAIN rs : rs[k].file_path = p })

\* The files whose extraction call returns success = false, and those
\* whose call raises.
Injected(files) == { p \in files : outcome[NameOf(p)] = "fail" }

Raisers(files) == { p \in files : outcome[NameOf(p)] = "raise" }

\* C1: a batch (sequential or parallel) that returns a report returns
\* exactly one ProcessingResult for each enumerated input path, none lost,
\* none duplicated, none foreign, whatever the completion order and
\* whichever tasks fail; and with a worker count W >= 1 neither function
\* raises.
C1_OneResultPerFile ==
    /\ max_workers >= 1 => pc # "raised"
    /\ \A run \in Runs :
         run[1].success =>
           LET files == Range(Enumerate)
           IN  /\ Len(run[1].results) = Cardinality(files)
               /\ \A p \in files : PathCount(run[1].results, p) = 1
               /\ \A k \in DOMAIN run[1].results :
                    run[1].results[k].file_path \in files

C1_Witness ==
    /\ parallel_results.success
    /\ max_workers = 2
    /\ Len(parallel_results.results) = 3
    /\ parallel_results.failed >= 1
    /\ parallel_results.results[1].file_path # Enumerate[1]

\* C2: while process_folder_parallel runs with max_workers = W, at most W
\* tasks have started _process_single_file and not yet returned, and no
\* result is collected before every task has been submitted.
C2_AtMostWRunning ==
    InPool =>
      /\ Cardinality(Running) <= max_workers
      /\ num_threads <= max_workers
      /\ results # <<>> => \A k \in DOMAIN tasks : tasks[k].st # "new"

C2_Witness ==
    /\ InPool
    /\ max_workers = 2
    /\ Cardinality(Running) = max_workers
    /\ work_queue # <<>>

\* C3: every report with success = True has successful + failed =
\* total_files = len(results), and while results are collected the running
\* counters add up to the number of results collected so far.
C3_CountsAddUp ==
    /\ \A run \in Runs :
         run[1].success =>
           /\ run[1].successful + run[1].failed = run[1].total_files
           /\ run[1].total_files = Len(run[1].results)
    /\ BatchRunning => successful + failed = Len(results)

C3_Witness ==
    /\ sequential_results.success
    /\ sequential_results.failed >= 1
    /\ sequential_results.successful >= 1
    /\ pc = "par_collect"
    /\ successful = 1
    /\ failed = 1
    /\ Len(image_files) = 3

\* C4: when the extraction calls of a fixed subset F of the files return
\* success = false and all others succeed, every report has failed = |F|
\* and successful = total - |F|, for every worker count, and the result of
\* each file outside F is a success with the table and page counts of its
\* document, as without any injected failure.
C4_FaultIsolation ==
    \A run \in Runs :
      run[1].success =>
        LET files == Range(Enumerate)
            F == Injected(files)
        IN  Raisers(files) = {} =>
              /\ run[1].failed = Cardinality(F)
              /\ run[1].successful = run[1].total_files - Cardinality(F)
              /\ \A k \in DOMAIN run[1].results :
                   LET r == run[1].results[k]
                   IN  r.file_path \notin F =>
                         /\ r.success
                         /\ r.error = None
                         /\ r.tables_count = Len(DocTables(NameOf(r.file_path)))
                         /\ r.pages_count = DocPages(NameOf(r.file_path))

C4_Witness ==
    /\ parallel_results.success
    /\ parallel_results.total_files = 3
    /\ parallel_results.successful = 2
    /\ max_workers = 2
    /\ Raisers(Range(Enumerate)) = {}
    /\ outcome[NameOf(Enumerate[1])] = "fail"

\* C5: a task whose extract_tables call raises yields exactly one failed
\* ProcessingResult carrying the exception text; the exception never
\* leaves the task function, future.result() never raises (no batch of an
\* extractor with W >= 1 raises), and every sibling task is still reported
\* exactly once.
C5_ExceptionBecomesFailure ==
    /\ max_workers >= 1 => pc # "raised"
    /\ ~raised
    /\ \A k \in DOMAIN tasks : tasks[k].future.kind # "raise"
    /\ \A run \in Runs :
         run[1].success =>
           LET files == Range(Enumerate)
               raisers == Raisers(files)
           IN  /\ \A p \in files : PathCount(run[1].results, p) = 1
               /\ \A k \in DOMAIN run[1].results :
                    LET r == run[1].results[k]
                    IN  r.file_path \in raisers =>
                          ~r.success /\ r.error = "Image file not found"

C5_Witness ==
    /\ parallel_results.success
    /\ parallel_results.successful >= 1
    /\ max_workers = 2
    /\ Raisers(Range(Enumerate)) # {}
    /\ parallel_results.failed = Cardinality(Raisers(Range(Enumerate)))

\* C6: whenever the write of a task's output file fails, the result of that
\* task has success = False and an error.
C6_WriteFailureFailsTask ==
    \A run \in Runs :
      run[1].success =>
        \A k \in DOMAIN run[1].results :
          LET r == run[1].results[k]
          IN  (\E w \in failed_writes : w.by = r.file_path /\ w.path[1] = run[3])
                => ~r.success /\ r.error # None

\* C7: after a batch in which every write succeeded, no two tasks have
\* written the same output path, and the number of distinct output files
\* of the batch equals its successful count.
C7_OneArtifactPerSuccess ==
    \A run \in Runs :
      (run[1].success /\ \A w \in failed_writes : w.path[1] # run[3]) =>
        /\ \A w1, w2 \in writes : w1.path = w2.path => w1.by = w2.by
        /\ Cardinality({ p \in outputs : p[1] = run[3] }) = run[1].successful

\* C8: with an empty enumerated list both functions return, without
\* raising, without an extraction call and without starting a worker, the
\* failure value (success = False, processed = 0, no results); with a
\* non-empty list they return success = True, also when every task failed
\* (an extractor with W >= 1 never raises).
C8_EmptyListFailureValue ==
    /\ max_workers >= 1 => pc # "raised"
    /\ \A run \in Runs :
         run[1] # NotRun =>
           IF run[1].success
           THEN Enumerate # <<>>
           ELSE /\ Enumerate = <<>>
                /\ run[1].processed = 0
                /\ run[1].results = <<>>
                /\ extract_calls[run[2]] = EmptyBag
                /\ threads_started = 0

C8_Witness ==
    /\ parallel_results # NotRun
    /\ sequential_results # NotRun
    /\ input_exists
    /\ listing # <<>>
    /\ Enumerate = <<>>

AllFail == \A n \in Range(listing) : Supported(n) => outcome[n] # "ok"

\* C9: with every extraction call returning or raising after finite time
\* and the threads scheduled fairly, both batch runs over a non-empty list
\* end with a report, for every worker count W >= 1 and every pattern of task
\* failures; when every task fails the report has successful = 0 and
\* failed = total_files.
C9_Terminates ==
    /\ (pc = "sequential" /\ Enumerate # <<>> /\ max_workers >= 1)
         ~> (sequential_results.success /\ parallel_results.success)
    /\ [](\A run \in Runs :
            (run[1].success /\ run[1].successful > 0) => ~AllFail)
    /\ [](\A run \in Runs :
            run[1].success => run[1].successful + run[1].failed = run[1].total_files)

C9_Witness ==
    /\ parallel_results.success
    /\ parallel_results.successful = 0
    /\ parallel_results.failed = 3
    /\ max_workers = 2
    /\ AllFail

\* C10 as stated: the sequential and the parallel report of the same input
\* agree on total_files, successful, failed, the summed per-task durations
\* and the summed file sizes.
C10_SameAggregates ==
    (sequential_results.success /\ parallel_results.success) =>
      /\ sequential_results.total_files = parallel_results.total_files
      /\ sequential_results.successful = parallel_results.successful
      /\ sequential_results.failed = parallel_results.failed
      /\ sequential_results.total_processing_time
           = parallel_results.total_processing_time
      /\ sequential_results.total_file_size_mb = parallel_results.total_file_size_mb

\* C10 (amended): the sequential and the parallel report of the same input
\* agree on total_files, successful and failed, and hold for every file the
\* same success flag and the same file size; their summed file sizes are
\* equal when both hold the results in the same order. The summed per-task
\* durations are wall-clock measurements and the summed file sizes are
\* float additions in completion order: neither need agree.
C10_SameCountsAndSizes ==
    (sequential_results.success /\ parallel_results.success) =>
      LET PerFile(rs) == { <<rs[k].file_path, rs[k].success, rs[k].file_size_mb>> :
                             k \in DOMAIN rs }
          Paths(rs) == [k \in DOMAIN rs |-> rs[k].file_path]
      IN  /\ sequential_results.total_files = parallel_results.total_files
          /\ sequential_results.successful = parallel_results.successful
          /\ sequential_results.failed = parallel_results.failed
          /\ PerFile(sequential_results.results) = PerFile(parallel_results.results)
          /\ Paths(sequential_results.results) = Paths(parallel_results.results)
               => sequential_results.total_file_size_mb
                    = parallel_results.total_file_size_mb

C10_Witness ==
    /\ sequential_results.success
    /\ parallel_results.success
    /\ max_workers = 2
    /\ parallel_results.total_files = 3
    /\ parallel_results.failed = 1
    /\ parallel_results.total_time < sequential_results.total_time
    /\ parallel_results.total_processing_time
         # sequential_results.total_processing_time

\* The orders in which n results can be collected.
Perms(n) == { p \in [1..n -> 1..n] : \A a, b \in 1..n : p[a] = p[b] => a = b }

Reorder(rs, p) == [k \in DOMAIN rs |-> rs[p[k]]]

\* The report process_folder_parallel builds when the results of a finished
\* batch are collected in the order p.
Reaggregated(report, p) ==
    LET rs == Reorder(report.results, p)
    IN  ParallelReport(Enumerate, rs, Counted(rs)[1], Counted(rs)[2],
                       report.total_time, report.max_workers)

\* C11: the report of a parallel batch is the same for every order in which
\* its results are collected: total_files, successful, failed, the summed
\* per-task durations, the summed file sizes and the throughput.
C11_OrderIndependent ==
    parallel_results.success =>
      \A p \in Perms(Len(parallel_results.results)) :
        LET other == Reaggregated(parallel_results, p)
        IN  /\ other.total_files = parallel_results.total_files
            /\ other.successful = parallel_results.successful
            /\ other.failed = parallel_results.failed
            /\ other.total_processing_time = parallel_results.total_processing_time
            /\ other.total_file_size_mb = parallel_results.total_file_size_mb
            /\ other.throughput = parallel_results.throughput

\* C12: in every report with success = True, throughput is the number of
\* results divided by total_time when total_time > 0 and is 0 when
\* total_time is 0, the average per-task time is the summed time divided
\* by the number of results, and neither quotient has a zero divisor.
C12_ThroughputGuarded ==
    \A run \in Runs :
      run[1].success =>
        LET n == Len(run[1].results)
        IN  /\ run[1].throughput[2] # 0
            /\ run[1].avg_processing_time[2] # 0
            /\ n > 0
            /\ run[1].total_time >= 0
            /\ run[1].total_time > 0 =>
                 run[1].throughput[1] * run[1].total_time = n * run[1].throughput[2]
            /\ run[1].total_time = 0 => run[1].throughput = Zero
            /\ run[1].avg_processing_time[1] * n
                 = run[1].total_processing_time * run[1].avg_processing_time[2]

C12_Witness ==
    /\ sequential_results.success
    /\ parallel_results.success
    /\ Len(parallel_results.results) = 3
    /\ parallel_results.total_time = 0
    /\ parallel_results.throughput = Zero
    /\ max_workers = 2

\* C13: every value returned for a batch without tasks carries a
\* throughput, and that throughput is 0.
C13_ZeroBatchZeroThroughput ==
    \A run \in Runs :
      (run[1] # NotRun /\ run[1].results = <<>>) =>
        /\ "throughput" \in DOMAIN run[1]
        /\ run[1].throughput = Zero

\* C14: within one batch run extract_tables is called at most once for a
\* file, and when the run has returned its report it has been called
\* exactly once for each enumerated file, whether the call succeeded,
\* returned a failure or raised.
C14_OneCallPerFile ==
    \A run \in Runs :
      LET calls == extract_calls[run[2]]
      IN  /\ \A p \in BagToSet(calls) : CopiesIn(p, calls) = 1
          /\ run[1].success => calls = SetToBag(Range(Enumerate))

C14_Witness ==
    /\ parallel_results.success
    /\ sequential_results.success
    /\ max_workers = 2
    /\ Len(Enumerate) = 3
    /\ Injected(Range(Enumerate)) # {}
    /\ Raisers(Range(Enumerate)) # {}
    /\ extract_calls["parallel"] = SetToBag(Range(Enumerate))

\* C15: no batch is ever run, and no extraction call is ever made, by an
\* extractor whose max_workers is not positive.
C15_InvalidWorkerCountRejected ==
    max_workers <= 0 =>
      /\ sequential_results = NotRun
      /\ parallel_results = NotRun
      /\ \A run \in Runs : extract_calls[run[2]] = EmptyBag

\* Every ProcessingResult that exists: in a report, in the results list of
\* the running batch, or in a future.
AllResults ==
    UNION { Range(run[1].results) : run \in Runs }
      \cup Range(results)
      \cup { tasks[k].future.value :
               k \in { j \in DOMAIN tasks : tasks[j].future.kind = "return" } }

\* C16: every ProcessingResult with success = True has no error and
\* non-negative table and page counts, and every one with success = False
\* has an error.
C16_ResultWellFormed ==
    \A r \in AllResults :
      /\ r.success => (r.error = None /\ r.tables_count >= 0 /\ r.pages_count >= 0)
      /\ ~r.success => r.error # None

C16_Witness ==
    /\ parallel_results.success
    /\ \E r \in Range(parallel_results.results) : r.success
    /\ \E r \in Range(parallel_results.results) :
         ~r.success /\ r.error = "Image file not found"
    /\ \E r \in Range(parallel_results.results) :
         ~r.success /\ r.error = "process_document failed"

\* ----------------------------------------------------- the sweep
\* The configurations other than the baseline whose batch returned a report.
RanParallel == { e \in Range(all_results) : e.result.success /\ e.key > 1 }

\* The W=1 total_time, once the analysis has read it.
BaselineTime == all_results[1].result.total_time

\* speedup / W of a configuration that ran, as a quotient not reduced.
Efficiency(e) ==
    IF e.result.total_time > 0
    THEN <<BaselineTime, e.result.total_time * e.key>>
    ELSE <<1, e.key>>

SameValue(a, b) == ~RLess(a, b) /\ ~RLess(b, a)

Analysed == analysis # EmptyDict

HasOptimal == Analysed /\ "optimal_workers" \in DOMAIN analysis.scalability_analysis

\* C17: the optimal worker count of the analysis is a configuration with
\* W > 1 that ran, none that ran has a greater efficiency = speedup / W,
\* and among those with the same efficiency it has the lowest worker count.
C17_OptimalIsMostEfficient ==
    HasOptimal =>
      \E e \in RanParallel :
        /\ e.key = analysis.scalability_analysis.optimal_workers
        /\ \A f \in RanParallel :
             /\ ~RLess(Efficiency(e), Efficiency(f))
             /\ SameValue(Efficiency(e), Efficiency(f)) => e.key <= f.key

C17_Witness ==
    /\ sweep_pc = "done"
    /\ analysis.scalability_analysis.optimal_workers = 5
    /\ \E f \in RanParallel :
         f.key = 10 /\ SameValue(Efficiency(f), <<1, 5>>)
    /\ \E f \in RanParallel : f.key = 8
    /\ ~all_results[2].result.success

\* C18: a sweep in which every configuration returned the
\* nothing-to-process value does not raise.
C18_AllEmptySweepCompletes ==
    (\A e \in Range(all_results) : ~e.result.success) => sweep_pc # "raised"

\* C19: the sweep never raises, and when every configuration with W > 1
\* that ran took at least the W=1 total_time, the optimal worker count of
\* the analysis is 1.
C19_OptimalIsBaselineWithoutGain ==
    /\ sweep_pc # "raised"
    /\ (HasOptimal /\ \A e \in RanParallel : e.result.total_time >= BaselineTime)
         => analysis.scalability_analysis.optimal_workers = 1

\* C20: the j-th speedup and the j-th efficiency of the analysis belong to
\* the j-th configuration with W > 1 that ran: the speedup is the W=1
\* total_time divided by that configuration's total_time, or 1 when that
\* total_time is 0, and the efficiency is the speedup divided by its
\* worker count.
C20_SpeedupPerConfiguration ==
    HasOptimal =>
      LET rest == Tail(Successful(all_results))
          speedups == analysis.scalability_analysis.speedups
          efficiencies == analysis.scalability_analysis.efficiencies
      IN  /\ Len(speedups) = Len(rest)
          /\ Len(efficiencies) = Len(rest)
          /\ \A j \in DOMAIN rest :
               LET t == rest[j].result.total_time
                   sp == speedups[j]
                   ef == efficiencies[j]
               IN  /\ rest[j].key > 1
                   /\ sp[2] > 0
                   /\ ef[2] > 0
                   /\ t > 0 => sp[1] * t = BaselineTime * sp[2]
                   /\ t = 0 => sp = One
                   /\ ef[1] * sp[2] * rest[j].key = sp[1] * ef[2]

C20_Witness ==
    /\ sweep_pc = "done"
    /\ ~all_results[2].result.success
    /\ Len(analysis.scalability_analysis.speedups) = 3
    /\ all_results[3].result.success
    /\ all_results[3].result.total_time = 0
    /\ analysis.scalability_analysis.speedups[1] = One
    /\ analysis.scalability_analysis.speedups[2] = <<2, 1>>
    /\ analysis.scalability_analysis.efficiencies[2] = <<2, 5>>
    /\ BaselineTime = 2

\* |speedup - W| of every configuration with W > 1 that ran, in sweep
\* order, as quotients not reduced.
Deviations ==
    LET rest == Tail(Successful(all_results))
    IN  [j \in DOMAIN rest |->
           LET t == rest[j].result.total_time
               sp == IF t > 0 THEN <<BaselineTime, t>> ELSE <<1, 1>>
               linear == rest[j].key * sp[2]
           IN  IF sp[1] >= linear THEN <<sp[1] - linear, sp[2]>>
               ELSE <<linear - sp[1], sp[2]>>]

\* C21: the linear-scaling deviation is the mean of |speedup - W| over the
\* configurations with W > 1 that ran, and 0 for no configuration; the
\* pattern line of the report is near-linear exactly when deviation < 0.5,
\* acceptable with overhead exactly when 0.5 <= deviation < 1.0, and
\* diminishing returns exactly when deviation >= 1.0.
C21_DeviationAndBands ==
    /\ _calculate_linearity_deviation(<<>>, <<>>) = Zero
    /\ HasOptimal =>
         LET d == analysis.scalability_analysis.linear_speedup_deviation
             total == RSum(Deviations)
         IN  /\ Deviations # <<>>
             /\ d[2] > 0
             /\ d[1] * total[2] * Len(Deviations) = total[1] * d[2]
    /\ performance_report # EmptyDict =>
         LET d == performance_report.linear_speedup_deviation
             pattern == performance_report.pattern
         IN  /\ d = analysis.scalability_analysis.linear_speedup_deviation
             /\ pattern = "Near-linear scaling achieved" <=> 2 * d[1] < d[2]
             /\ pattern = "Good scaling with some overhead"
                  <=> (2 * d[1] >= d[2] /\ d[1] < d[2])
             /\ pattern = "Diminishing returns observed" <=> d[1] >= d[2]

C21_Witness ==
    /\ sweep_pc = "done"
    /\ Len(Deviations) = 2
    /\ performance_report.linear_speedup_deviation = Half
    /\ performance_report.pattern = "Good scaling with some overhead"

\* ------------------------------------------------ the stepwise sweep
\* The keys under which reports have been stored, in the order of storing.
Keys == [k \in DOMAIN all_results |-> all_results[k].key]

\* No batch is in progress: no task exists, no work item waits and the
\* pool has no thread.
AtRest == tasks = <<>> /\ Running = {} /\ work_queue = <<>> /\ num_threads = 0

\* C22: the sweep stores its reports in the order W = 1, 2, 3, 5, 8, 10
\* (the baseline first, then strictly ascending), one per configuration and
\* none twice; a batch is in progress only for the configuration in turn,
\* with the extractor of that configuration, and whenever a batch call is
\* about to be made or has returned nothing of a batch is in progress;
\* every stored report is complete; the baseline duration of the analysis
\* is the total_time stored for W = 1.
C22_OneConfigurationAtATime ==
    /\ Keys = SubSeq(<<1, 2, 3, 5, 8, 10>>, 1, Len(all_results))
    /\ \A j, k \in DOMAIN Keys : j < k => Keys[j] < Keys[k]
    /\ sweep_pc # "run" => Len(all_results) = 6
    /\ \A k \in DOMAIN all_results :
         LET result == all_results[k].result
         IN  /\ result # NotRun
             /\ result.success =>
                  /\ result.max_workers = Keys[k]
                  /\ Len(result.results) = Len(Enumerate)
    /\ sweep_pc = "run" =>
         /\ Len(all_results) < 6
         /\ max_workers = <<1, 2, 3, 5, 8, 10>>[Len(all_results) + 1]
         /\ BatchRunning => (pc = "seq_loop" <=> all_results = <<>>)
    /\ pc \in {"sequential", "parallel", "compare"} => AtRest
    /\ sweep_pc # "run" => AtRest
    /\ Analysed =>
         /\ all_results[1].key = 1
         /\ analysis.performance_metrics.sequential_time
              = all_results[1].result.total_time

C22_Witness ==
    /\ sweep_pc = "run"
    /\ Len(all_results) = 3
    /\ max_workers = 5
    /\ Cardinality(Running) = 2
    /\ all_results[2].result.success
    /\ all_results[2].result.results[1].file_path # Enumerate[1]

\* The output files a stored report accounts for: one for every successful
\* result, in the output folder of its configuration.
OutputsOf(e) ==
    IF e.result.success
    THEN { OutputPath(e.result.results[k].file_path, BenchmarkOutput(e.key)) :
             k \in { j \in DOMAIN e.result.results : e.result.results[j].success } }
    ELSE {}

\* C23: a stored report is never changed by a later step of the sweep; a
\* batch writes only into the output folder of its own configuration, the
\* folders of different configurations differ, so the folder of a
\* configuration that has run holds exactly the outputs of its own
\* successful tasks and that of one still to run is empty; the batch in
\* progress uses the extractor made for its configuration; and the baseline
\* duration of the analysis is the total_time stored for W = 1, from which
\* every speedup is taken.
C23_RunsAreIndependent ==
    /\ [][ /\ \A k \in DOMAIN all_results :
                k \in DOMAIN all_results' /\ all_results'[k] = all_results[k]
           /\ outputs \subseteq outputs'
           /\ \A p \in outputs' \ outputs : p[1] = BenchmarkOutput(max_workers)
           /\ \A w \in writes' \ writes : w.path[1] = BenchmarkOutput(max_workers)
         ]_vars
    /\ [](\A a, b \in Range(worker_configs) :
            a # b => BenchmarkOutput(a) # BenchmarkOutput(b))
    /\ [](\A k \in DOMAIN all_results :
            { p \in outputs : p[1] = BenchmarkOutput(Keys[k]) }
              = OutputsOf(all_results[k]))
    /\ [](\A k \in DOMAIN worker_configs :
            k > Len(all_results) + 1 =>
              { p \in outputs : p[1] = BenchmarkOutput(worker_configs[k]) } = {})
    /\ [](sweep_pc = "run" => max_workers = worker_configs[Len(all_results) + 1])
    /\ [](Analysed =>
            analysis.performance_metrics.sequential_time = BaselineTime)
    /\ [](HasOptimal =>
            \A j \in DOMAIN analysis.scalability_analysis.speedups :
              LET t == Tail(Successful(all_results))[j].result.total_time
                  sp == analysis.scalability_analysis.speedups[j]
              IN  t > 0 => sp[1] * t = BaselineTime * sp[2])

C23_Witness ==
    /\ sweep_pc = "done"
    /\ Cardinality({ p[1] : p \in outputs }) = 6
    /\ Cardinality(outputs) = 12
    /\ all_results[1].result.results # all_results[2].result.results

\* The sweep is past its analysis step.
AnalysisOver == sweep_pc \in {"report", "done", "raised"}

\* Every task of the batch of a stored report failed.
AllTasksFailed(e) ==
    /\ e.result.success
    /\ e.result.successful = 0
    /\ e.result.failed = e.result.total_files
    /\ e.result.total_files > 0

\* C24: when the W=1 run returned a report, the analysis returns whatever
\* the other reports are: every report takes part in it, also one whose
\* tasks all failed and one with total_time = 0, and no quotient of the
\* analysis (success rate, max speedup, speedups, efficiencies, deviation)
\* has a zero divisor; when every configuration returned a report the
\* sweep does not raise at all.
C24_DegenerateReportsAnalysed ==
    (AnalysisOver /\ all_results[1].result.success) =>
      /\ Analysed
      /\ analysis.summary.worker_configurations_tested
           = Len(Successful(all_results))
      /\ analysis.performance_metrics.max_speedup[2] > 0
      /\ analysis.performance_metrics.avg_success_rate[2] > 0
      /\ analysis.performance_metrics.max_throughput[2] > 0
      /\ (\A e \in Range(all_results) : AllTasksFailed(e))
           => analysis.performance_metrics.avg_success_rate = Zero
      /\ RanParallel # {} =>
           /\ HasOptimal
           /\ Len(analysis.scalability_analysis.speedups) = Cardinality(RanParallel)
           /\ \A j \in DOMAIN analysis.scalability_analysis.speedups :
                /\ analysis.scalability_analysis.speedups[j][2] > 0
                /\ analysis.scalability_analysis.efficiencies[j][2] > 0
           /\ analysis.scalability_analysis.linear_speedup_deviation[2] > 0
      /\ (\A e \in Range(all_results) : e.result.success) => sweep_pc # "raised"

C24_Witness ==
    /\ sweep_pc = "done"
    /\ \A e \in Range(all_results) : AllTasksFailed(e)
    /\ BaselineTime = 0
    /\ \E e \in RanParallel : e.result.total_time = 0
    /\ \E e \in RanParallel : e.result.total_time > 0

\* C25: a sweep whose W=1 run returned a report while every later
\* configuration returned the nothing-to-process value ends without
\* raising, with an analysis that compares no parallel configuration.
C25_BaselineOnlySweepCompletes ==
    (/\ Len(all_results) = Len(worker_configs)
     /\ all_results[1].result.success
     /\ RanParallel = {}) =>
      /\ sweep_pc # "raised"
      /\ Analysed => analysis.summary.worker_configurations_tested = 1

\* C26: while process_folder_sequential runs, at most one task is
\* executing and it is the task of the loop index; every file before the
\* index has its result recorded and no file after it has been begun; the
\* files are taken in enumeration order and the results list, during the
\* loop and in the report, holds them in that order; no pool thread
\* exists. This holds whatever max_workers the extractor was given.
C26_SequentialIsSequential ==
    /\ pc = "seq_loop" =>
         /\ Cardinality(Running) <= 1
         /\ Running \subseteq {i}
         /\ image_files = Enumerate
         /\ Len(results) = i - 1
         /\ \A k \in DOMAIN tasks :
              /\ k < i => tasks[k].st = "collected"
              /\ k > i => tasks[k].st = "new"
         /\ \A k \in DOMAIN results : results[k].file_path = image_files[k]
         /\ num_threads = 0
         /\ work_queue = <<>>
         /\ threads_started = 0
    /\ sequential_results.success =>
         /\ Len(sequential_results.results) = Len(Enumerate)
         /\ \A k \in DOMAIN sequential_results.results :
              sequential_results.results[k].file_path = Enumerate[k]

C26_Witness ==
    /\ pc = "seq_loop"
    /\ max_workers = 2
    /\ Len(image_files) = 3
    /\ i = 3
    /\ tasks[3].st = "running"
    /\ Len(results) = 2
    /\ clock = 2

\* The steps of worker threads: a task begins or ends its extraction call.
WorkerStep ==
    \E k \in DOMAIN tasks :
      /\ k \in DOMAIN tasks'
      /\ \/ tasks[k].st = "queued" /\ tasks'[k].st = "running"
         \/ tasks[k].st = "running" /\ tasks'[k].st = "finished"

\* One turn of the collecting loop of the calling thread: the result of
\* one done future is appended and counted.
CollectorStep ==
    /\ pc = "par_collect"
    /\ \E k \in as_completed :
         /\ tasks' = [tasks EXCEPT ![k] = [@ EXCEPT !.st = "collected"]]
         /\ results' = Append(results, tasks[k].future.value)
         /\ successful' + failed' = successful + failed + 1

\* C27: while process_folder_parallel runs, a step of a worker thread
\* leaves the results list and both counters as they are and hands its
\* result over in the future of its task; the list and the counters change
\* only in a turn of the collecting loop, by one result at a time, or when
\* the function returns; and results_lock is held by no thread, in
\* particular while an extraction call is in progress.
C27_SinkHasOneWriter ==
    /\ [][ InPool =>
             /\ WorkerStep => UNCHANGED <<results, successful, failed>>
             /\ ~UNCHANGED <<results, successful, failed>> =>
                  \/ CollectorStep
                  \/ pc = "par_exit" /\ pc' \in {"compare", "raised"}
             /\ \A k \in DOMAIN tasks :
                  (tasks[k].st = "running" /\ k \in DOMAIN tasks'
                     /\ tasks'[k].st = "finished")
                    => tasks'[k].future = Completed(k)
         ]_vars
    /\ [](results_lock = "unlocked")
    /\ [](\A k \in DOMAIN results :
            \E j \in DOMAIN tasks :
              tasks[j].st = "collected" /\ tasks[j].future.value = results[k])

C27_Witness ==
    /\ pc = "par_collect"
    /\ max_workers = 2
    /\ Len(results) = 1
    /\ Cardinality(Running) = 2
    /\ results_lock = "unlocked"

\* ceil(n / w) for w >= 1.
Ceil(n, w) == (n + w - 1) \div w

\* The wall duration of n tasks of d ticks each that run in rounds of w.
RoundsWall(n, w, d) == Ceil(n, w) * d

\* C28: when every task blocks for the same time d, none fails and no
\* thread lags, the sequential batch over N files reports total_time = N*d
\* and the parallel batch with W workers reports ceil(N/W)*d; the
\* scalability analysis of the two reports has speedup N / ceil(N/W); and
\* for the wall durations of 10 tasks with 1 and with 5 workers (10d and
\* 2d) it has speedup 5, efficiency 1, deviation 0 and the near-linear band.
C28_WallDuration ==
    /\ (sequential_results # NotRun /\ sequential_results.success) =>
          sequential_results.total_time =
             RoundsWall(sequential_results.total_files, 1, duration)
    /\ (parallel_results # NotRun /\ parallel_results.success) =>
          /\ parallel_results.total_time =
                RoundsWall(parallel_results.total_files, max_workers, duration)
          /\ duration > 0 =>
                ScalabilityAnalysis(
                    <<sequential_results.max_workers, parallel_results.max_workers>>,
                    <<sequential_results.total_time, parallel_results.total_time>>,
                    sequential_results.total_time).speedups
                 = << Div(parallel_results.total_files,
                          Ceil(parallel_results.total_files, max_workers)) >>
    /\ \A d \in 1..MaxDur :
          /\ RoundsWall(10, 1, d) = 10 * d
          /\ RoundsWall(10, 5, d) = 2 * d
          /\ LET s == ScalabilityAnalysis(
                         <<1, 5>>, <<RoundsWall(10, 1, d), RoundsWall(10, 5, d)>>,
                         RoundsWall(10, 1, d))
             IN  /\ s.speedups = << <<5, 1>> >>
                 /\ s.efficiencies = <<One>>
                 /\ s.linear_speedup_deviation = Zero
                 /\ SpeedupPattern(s.linear_speedup_deviation)
                       = "Near-linear scaling achieved"

C28_Witness ==
    /\ parallel_results # NotRun
    /\ parallel_results.success
    /\ parallel_results.total_files = 3
    /\ max_workers = 2
    /\ duration = 1
    /\ sequential_results.total_time = 3
    /\ parallel_results.total_time = 2

\* The two reports of main() as a sweep would hold them, the parallel one
\* under a key that differs from the worker count it records.
ReportsUnderOtherKey ==
    << [key |-> 1, result |-> sequential_results],
       [key |-> 10, result |-> parallel_results] >>

\* C29: a report of process_folder_sequential records max_workers = 1
\* whatever worker count the extractor was constructed with, and its loop
\* never has more than one extraction call in progress; a report of
\* process_folder_parallel records the configured max_workers, which bounds
\* the threads its pool started; and _analyze_results takes the worker
\* count of a configuration from the recorded field, not from its key.
C29_RecordedWorkerCount ==
    /\ (sequential_results # NotRun /\ sequential_results.success) =>
          sequential_results.max_workers = 1
    /\ pc = "seq_loop" => Cardinality(Running) <= 1
    /\ InPool => num_threads <= max_workers
    /\ (parallel_results # NotRun /\ parallel_results.success) =>
          /\ parallel_results.max_workers = max_workers
          /\ sequential_results.success
          /\ LET a == _analyze_results(ReportsUnderOtherKey)
                 s == a.value.scalability_analysis
             IN  /\ a.kind = "return"
                 /\ a.value.summary.worker_configurations_tested = 2
                 /\ a.value.summary.best_configuration
                       \in {1, parallel_results.max_workers}
                 /\ s.optimal_workers = parallel_results.max_workers
                 /\ s.efficiencies =
                       << Div(s.speedups[1][1],
                              s.speedups[1][2] * parallel_results.max_workers) >>
                 /\ s.linear_speedup_deviation =
                       RAbsDiff(s.speedups[1],
                                <<parallel_results.max_workers, 1>>)

C29_Witness ==
    /\ max_workers = 2
    /\ sequential_results # NotRun
    /\ sequential_results.success
    /\ sequential_results.max_workers = 1
    /\ parallel_results # NotRun
    /\ parallel_results.success
    /\ parallel_results.max_workers = 2
    /\ parallel_results.total_time = 1
    /\ _analyze_results(ReportsUnderOtherKey).value.scalability_analysis.optimal_workers = 2

\* C30: whenever a configuration with W > 1 ran, max_speedup of the
\* performance metrics equals the greatest of the per-configuration
\* speedups of the scalability analysis, zero total times included.
C30_MaxSpeedupIsMaxOfSpeedups ==
    HasOptimal =>
      analysis.performance_metrics.max_speedup
        = max(analysis.scalability_analysis.speedups)

====
